---------------------------- MODULE Spec2Model ----------------------------
(***************************************************************************)
(* cmd-guard: the risk classification engine of src/src/analyzer.js        *)
(* (parseCommand, analyzeRisks, checkPipeRisks, getRiskLevel,              *)
(* getSuggestion, getContextualSuggestion, generateExplanation,            *)
(* generateDryRun) applied to command strings typed chunk by chunk.        *)
(*                                                                         *)
(* A JavaScript string that the code inspects character by character (the  *)
(* raw command, its tokens, the joined arguments, the catalog keys) is a   *)
(* sequence of one-character strings; Str turns such a sequence into the   *)
(* string it spells, for the texts the code only builds and hands on.      *)
(***************************************************************************)
EXTENDS Naturals, Sequences, FiniteSets

VARIABLES
    family,        \* index of the chunk vocabulary this command is typed from
    command,       \* the raw command string handed to analyzeCommand
    typed,         \* number of chunks typed so far
    pc,            \* "typing" | "analyzed"
    riskAnalysis,  \* analyzeCommand's local riskAnalysis (analyzer.js:41)
    result,        \* the value analyzeCommand returned
    cpc,           \* position of the CLI action (cmdguard.js:19-62); "none" when
                   \* analyzeCommand is called directly, as the tests do
    simulate,      \* options.simulate
    stdinEnded,    \* process.stdin was read to its end by readStdin
    displayed,     \* formatAnalysis(analysis) was printed
    prompted,      \* promptConfirm() was called
    line,          \* the line the readline interface delivered, if any
    promise,       \* promptConfirm's promise: "pending" | "true" | "false"
    child,         \* the spawned shell: "none" | "running" | "closed" | "error"
    childCode,     \* the exit code the child closed with
    exitCode       \* the exit code of the cmdguard process once cpc = "exited"

engineVars == <<family, command, typed, pc, riskAnalysis, result>>

cliVars == <<cpc, simulate, stdinEnded, displayed, prompted, line, promise,
             child, childCode, exitCode>>

vars == <<family, command, typed, pc, riskAnalysis, result, cpc, simulate,
          stdinEnded, displayed, prompted, line, promise, child, childCode,
          exitCode>>

\* Bound of the input space: the number of chunks a command is typed from.
MaxChunks == 3

---------------------------------------------------------------------------
(* JavaScript strings and values                                           *)

RECURSIVE Str(_)
Str(cs) == IF cs = <<>> THEN "" ELSE Head(cs) \o Str(Tail(cs))

\* String.prototype.includes / startsWith on character sequences.
Includes(hay, needle) ==
    \E i \in 1..(Len(hay) + 1) :
        /\ i + Len(needle) - 1 <= Len(hay)
        /\ \A k \in 1..Len(needle) : hay[i + k - 1] = needle[k]

StartsWith(hay, needle) ==
    /\ Len(needle) <= Len(hay)
    /\ \A k \in 1..Len(needle) : hay[k] = needle[k]

\* Array.prototype.join
RECURSIVE Join(_, _)
Join(parts, sep) ==
    IF parts = <<>> THEN <<>>
    ELSE IF Len(parts) = 1 THEN parts[1]
    ELSE parts[1] \o sep \o Join(Tail(parts), sep)

\* Array.prototype.includes on an array of tokens.
ArrIncludes(arr, tok) == \E i \in 1..Len(arr) : arr[i] = tok

Undefined == [type |-> "undefined"]
Null == [type |-> "null"]
StringV(s) == [type |-> "string", str |-> s]
\* What a property read that falls through to Object.prototype yields.
FunctionV == [type |-> "function"]
ObjectV == [type |-> "object"]

\* The property names every plain object inherits from Object.prototype.
ObjectPrototypeKeys ==
    {"constructor", "toString", "valueOf", "hasOwnProperty", "isPrototypeOf",
     "propertyIsEnumerable", "toLocaleString", "__proto__",
     "__defineGetter__", "__defineSetter__", "__lookupGetter__",
     "__lookupSetter__"}

\* obj[key] for a key that is not an own property of obj.
InheritedProperty(key) ==
    IF key = "__proto__" THEN ObjectV
    ELSE IF key \in ObjectPrototypeKeys THEN FunctionV
    ELSE Undefined

---------------------------------------------------------------------------
(* parseCommand                                                            *)

\* The characters /\s/ and trim() treat as white space, among those typed.
IsSpace(c) == c \in {" ", "\t", "\n"}

\* command.trim()
RECURSIVE TrimStart(_)
TrimStart(cs) ==
    IF cs # <<>> /\ IsSpace(Head(cs)) THEN TrimStart(Tail(cs)) ELSE cs

RECURSIVE TrimEnd(_)
TrimEnd(cs) ==
    IF cs # <<>> /\ IsSpace(cs[Len(cs)])
    THEN TrimEnd(SubSeq(cs, 1, Len(cs) - 1)) ELSE cs

Trim(cs) == TrimEnd(TrimStart(cs))

\* trimmed.split(/\s+/): cut at every maximal run of white space.  cur is the
\* piece being read; a separator run ends it, even when it is empty.
RECURSIVE SplitFrom(_, _, _)
SplitFrom(cs, cur, inSep) ==
    IF cs = <<>> THEN <<cur>>
    ELSE IF IsSpace(Head(cs))
         THEN IF inSep THEN SplitFrom(Tail(cs), cur, TRUE)
              ELSE <<cur>> \o SplitFrom(Tail(cs), <<>>, TRUE)
         ELSE SplitFrom(Tail(cs), Append(cur, Head(cs)), FALSE)

\* split(/\s/) in place of split(/\s+/): every white-space character cuts,
\* so a run of them leaves empty pieces.
RECURSIVE SplitAtEachSpace(_, _)
SplitAtEachSpace(cs, cur) ==
    IF cs = <<>> THEN <<cur>>
    ELSE IF IsSpace(Head(cs)) THEN <<cur>> \o SplitAtEachSpace(Tail(cs), <<>>)
    ELSE SplitAtEachSpace(Tail(cs), Append(cur, Head(cs)))

SplitWsSingle(cs) == SplitAtEachSpace(cs, <<>>)

SplitWs(cs) == SplitFrom(cs, <<>>, FALSE)

parseCommand(cmd) ==
    LET trimmed == Trim(cmd) IN
    IF trimmed = <<>> THEN [tool |-> <<>>, args |-> <<>>]
    ELSE LET parts == SplitWs(trimmed) IN
         [tool |-> parts[1], args |-> Tail(parts)]

---------------------------------------------------------------------------
(* The pattern catalog                                                     *)

\* A catalog risk entry: { flag | pattern, risk, reason }.  by says which of
\* the two properties the entry carries, key is that property's value.
FlagEntry(f, sev, why) == [by |-> "flag", key |-> f, risk |-> sev, reason |-> why]
PatternEntry(p, sev, why) == [by |-> "pattern", key |-> p, risk |-> sev, reason |-> why]

\* A tool's entry.  hasRisks / hasSubcommands say whether the object literal
\* has a `risks` / `subcommands` property at all.
FlatTool(rs, desc) ==
    [hasRisks |-> TRUE, risks |-> rs, hasSubcommands |-> FALSE,
     subcommands |-> <<>>, description |-> desc]
SubcommandTool(subs, desc) ==
    [hasRisks |-> FALSE, risks |-> <<>>, hasSubcommands |-> TRUE,
     subcommands |-> subs, description |-> desc]

\* A subcommand's entry: its own `risks` list, or (docker's `system`) no list
\* of its own but objects nested one level deeper.
SubWithRisks(rs) == [hasRisks |-> TRUE, risks |-> rs, nested |-> <<>>]
SubWithNested(n) == [hasRisks |-> FALSE, risks |-> <<>>, nested |-> n]

riskPatterns ==
    [rm |-> FlatTool(
        << FlagEntry(<<"-", "r", "f">>, "high", "Recursively deletes without confirmation"),
           FlagEntry(<<"-", "f">>, "high", "Forces deletion, ignores permissions"),
           FlagEntry(<<"-", "r">>, "medium", "Recursive deletion; combine with -f for high risk") >>,
        "File deletion command"),
     git |-> SubcommandTool(
        [push |-> SubWithRisks(
            << FlagEntry(<<"-", "-", "f", "o", "r", "c", "e">>, "high", "Overwrites remote history; may affect team"),
               FlagEntry(<<"-", "f">>, "high", "Same as --force; destructive to shared repo") >>),
         reset |-> SubWithRisks(
            << FlagEntry(<<"-", "-", "h", "a", "r", "d">>, "high", "Discards all uncommitted changes irreversibly") >>),
         clean |-> SubWithRisks(
            << FlagEntry(<<"-", "f">>, "high", "Forces deletion of untracked files"),
               FlagEntry(<<"-", "f", "d">>, "high", "Deletes untracked files AND directories") >>)],
        "Git version control"),
     docker |-> SubcommandTool(
        [system |-> SubWithNested(
            [prune |-> SubWithRisks(
                << FlagEntry(<<"-", "a">>, "high", "Removes all unused images (may be intentional)"),
                   FlagEntry(<<"-", "-", "v", "o", "l", "u", "m", "e", "s">>, "high", "Deletes unused volumes with potential data") >>)]),
         rmi |-> SubWithRisks(
            << FlagEntry(<<"-", "f">>, "high", "Force removes image, breaks dependent containers") >>),
         rm |-> SubWithRisks(
            << FlagEntry(<<"-", "f">>, "medium", "Force removes container; data loss possible") >>)],
        "Docker container/image operations"),
     dd |-> FlatTool(
        << PatternEntry(<<"i", "f", "=", "/", "d", "e", "v", "/">>, "high", "Reading from raw disk device"),
           PatternEntry(<<"o", "f", "=", "/", "d", "e", "v", "/">>, "high", "Writing to raw disk device; IRREVERSIBLE data corruption") >>,
        "Disk/device data copy; extreme risk with wrong arguments"),
     chmod |-> FlatTool(
        << FlagEntry(<<"7", "7", "7">>, "high", "World-readable/writable; major security vulnerability"),
           FlagEntry(<<"7", "5", "5">>, "low", "Standard; acceptable for most executables") >>,
        "File permission change"),
     chown |-> FlatTool(
        << FlagEntry(<<"-", "R">>, "high", "Recursively changes ownership; can break system access") >>,
        "Change file owner"),
     sudo |-> FlatTool(
        << PatternEntry(<<"s", "u", "d", "o">>, "medium", "Executing with root privileges; verify command is safe") >>,
        "Elevated privilege execution"),
     curl |-> FlatTool(
        << FlagEntry(<<"|", " ", "s", "h">>, "high", "Piping to shell executes arbitrary code from URL"),
           FlagEntry(<<"|", " ", "b", "a", "s", "h">>, "high", "Piping to bash executes arbitrary code from URL") >>,
        "HTTP client; can execute remote code if piped"),
     wget |-> FlatTool(
        << FlagEntry(<<"|", " ", "s", "h">>, "high", "Piping to shell executes arbitrary code") >>,
        "File downloader; dangerous if output is executed")]

---------------------------------------------------------------------------
(* analyzeRisks and getRiskLevel                                           *)

\* The object pushed onto detectedRisks for a matched entry.
Finding(e) == [by |-> e.by, key |-> Str(e.key), risk |-> e.risk, reason |-> e.reason]

\* FlatEntryMatches with the flag looked for in the joined argument string,
\* as a pattern is, in place of args.includes(flag).
FlatEntryMatchesSubstring(e, args, argStr) == Includes(argStr, e.key)

\* FlatEntryMatches with a flag looked for in the last argument only.
FlatEntryMatchesLastToken(e, args, argStr) ==
    \/ e.by = "flag" /\ args # <<>> /\ args[Len(args)] = e.key
    \/ e.by = "pattern" /\ Includes(argStr, e.key)

\* The forEach over a flat `risks` list (analyzer.js:334-349).
FlatEntryMatches(e, args, argStr) ==
    \/ e.by = "flag" /\ ArrIncludes(args, e.key)
    \/ e.by = "pattern" /\ Includes(argStr, e.key)

\* The forEach over a subcommand's `risks` list (analyzer.js:359-367): only
\* riskItem.flag is read.
SubEntryMatches(e, args) == e.by = "flag" /\ ArrIncludes(args, e.key)

\* MatchedFindings with each match put ahead of the earlier ones (unshift in
\* place of push).
RECURSIVE MatchedFindingsReversed(_, _, _, _)
MatchedFindingsReversed(entries, args, argStr, flat) ==
    IF entries = <<>> THEN <<>>
    ELSE MatchedFindingsReversed(Tail(entries), args, argStr, flat)
         \o (IF (IF flat THEN FlatEntryMatches(Head(entries), args, argStr)
                          ELSE SubEntryMatches(Head(entries), args))
             THEN <<Finding(Head(entries))>> ELSE <<>>)

RECURSIVE MatchedFindings(_, _, _, _)
MatchedFindings(entries, args, argStr, flat) ==
    IF entries = <<>> THEN <<>>
    ELSE (IF (IF flat THEN FlatEntryMatches(Head(entries), args, argStr)
                      ELSE SubEntryMatches(Head(entries), args))
          THEN <<Finding(Head(entries))>> ELSE <<>>)
         \o MatchedFindings(Tail(entries), args, argStr, flat)

\* pattern.subcommands[subCmd], read at analyzer.js:355-358: the risks list
\* the matcher goes on to scan, empty when the guard at 355 or 358 fails.
SubcommandRisks(pattern, args) ==
    IF ~pattern.hasSubcommands \/ args = <<>> THEN <<>>
    ELSE LET subCmd == Str(args[1]) IN
         IF subCmd \in DOMAIN pattern.subcommands
         THEN LET subPattern == pattern.subcommands[subCmd] IN
              IF subPattern.hasRisks THEN subPattern.risks ELSE <<>>
         ELSE <<>>    \* undefined, or an inherited function/object without risks

analyzeRisks(tool, args) ==
    LET name == Str(tool) IN
    IF name \in DOMAIN riskPatterns
    THEN LET pattern == riskPatterns[name]
             argStr == Join(args, <<" ">>)
         IN [found |-> TRUE, tool |-> name,
             risks |-> MatchedFindings(pattern.risks, args, argStr, TRUE)
                       \o MatchedFindings(SubcommandRisks(pattern, args), args, argStr, FALSE),
             description |-> StringV(pattern.description)]
    ELSE IF InheritedProperty(name) # Undefined
    THEN \* riskPatterns[tool] is a member of Object.prototype: truthy, with
         \* neither risks nor subcommands nor description
         [found |-> TRUE, tool |-> name, risks |-> <<>>, description |-> Undefined]
    ELSE [found |-> FALSE, tool |-> name, risks |-> <<>>, description |-> Undefined]

\* getRiskLevel with the medium test ahead of the high test.
getRiskLevelMediumFirst(risks) ==
    IF risks = <<>> THEN "low"
    ELSE IF \E i \in 1..Len(risks) : risks[i].risk = "medium" THEN "medium"
    ELSE IF \E i \in 1..Len(risks) : risks[i].risk = "high" THEN "high"
    ELSE "low"

getRiskLevel(risks) ==
    IF risks = <<>> THEN "low"
    ELSE IF \E i \in 1..Len(risks) : risks[i].risk = "high" THEN "high"
    ELSE IF \E i \in 1..Len(risks) : risks[i].risk = "medium" THEN "medium"
    ELSE "low"

---------------------------------------------------------------------------
(* checkPipeRisks                                                          *)

\* checkPipeRisks with `-a` looked for right after `prune` only
\* (args[2] === '-a' in place of args.includes('-a')).
checkPipeRisksFixedPosition(cmd, tool, args, analysis) ==
    (IF /\ Str(tool) \in {"curl", "wget"}
        /\ (Includes(cmd, <<"|", " ", "s", "h">>) \/ Includes(cmd, <<"|", " ", "b", "a", "s", "h">>))
     THEN << [by |-> "pattern",
              key |-> IF Includes(cmd, <<"|", " ", "s", "h">>) THEN "| sh" ELSE "| bash",
              risk |-> "high",
              reason |-> "Piping to shell executes downloaded content without inspection"] >>
     ELSE <<>>)
    \o
    (IF /\ Str(tool) = "docker"
        /\ Len(args) >= 3
        /\ args[1] = <<"s", "y", "s", "t", "e", "m">>
        /\ args[2] = <<"p", "r", "u", "n", "e">>
        /\ args[3] = <<"-", "a">>
     THEN << [by |-> "flag", key |-> "-a", risk |-> "high",
              reason |-> "Removes all unused images including tagged ones"] >>
     ELSE <<>>)

checkPipeRisks(cmd, tool, args, analysis) ==
    (IF /\ Str(tool) \in {"curl", "wget"}
        /\ (Includes(cmd, <<"|", " ", "s", "h">>) \/ Includes(cmd, <<"|", " ", "b", "a", "s", "h">>))
     THEN << [by |-> "pattern",
              key |-> IF Includes(cmd, <<"|", " ", "s", "h">>) THEN "| sh" ELSE "| bash",
              risk |-> "high",
              reason |-> "Piping to shell executes downloaded content without inspection"] >>
     ELSE <<>>)
    \o
    (IF /\ Str(tool) = "docker"
        /\ Len(args) >= 2
        /\ args[1] = <<"s", "y", "s", "t", "e", "m">>
        /\ args[2] = <<"p", "r", "u", "n", "e">>
        /\ ArrIncludes(args, <<"-", "a">>)
     THEN << [by |-> "flag", key |-> "-a", risk |-> "high",
              reason |-> "Removes all unused images including tagged ones"] >>
     ELSE <<>>)

---------------------------------------------------------------------------
(* The suggestion catalog, getSuggestion, getContextualSuggestion          *)

SuggestionRule(k, d, s, e) ==
    [type |-> "object", trigger |-> k, dangerous |-> d, safer |-> s, explanation |-> e]

\* Object.entries(suggestions): the keys are not integer-like, so the entries
\* come in the order the literal declares them.
suggestions ==
    << SuggestionRule(<<"r", "m", " ", "-", "r", "f">>, "rm -rf <path>", "rm -ri <path>",
            "Interactive mode prompts before each deletion"),
       SuggestionRule(<<"r", "m", " ", "-", "-", "f", "o", "r", "c", "e", " ", "-", "-", "r", "e", "c", "u", "r", "s", "i", "v", "e">>, "rm --force --recursive <path>", "rm -ri <path>",
            "Interactive mode prompts before each deletion"),
       SuggestionRule(<<"g", "i", "t", " ", "p", "u", "s", "h", " ", "-", "-", "f", "o", "r", "c", "e">>, "git push --force", "git push --force-with-lease",
            "Only force-push if remote hasn't changed; safer for shared repos"),
       SuggestionRule(<<"g", "i", "t", " ", "r", "e", "s", "e", "t", " ", "-", "-", "h", "a", "r", "d">>, "git reset --hard",
            "Create backup branch first: git branch backup && git reset --hard",
            "Preserves commit history in case you need to recover"),
       SuggestionRule(<<"d", "o", "c", "k", "e", "r", " ", "s", "y", "s", "t", "e", "m", " ", "p", "r", "u", "n", "e", " ", "-", "a">>, "docker system prune -a",
            "docker system prune (without -a) or docker image prune",
            "Without -a, only removes dangling images. Safer for production"),
       SuggestionRule(<<"c", "h", "m", "o", "d", " ", "7", "7", "7">>, "chmod 777 <path>",
            "chmod 755 <path> (executables) or chmod 644 <path> (files)",
            "Restricts access to owner+group, not world-readable"),
       SuggestionRule(<<"c", "u", "r", "l", " ", "|", " ", "s", "h">>, "curl <url> | sh",
            "curl <url> -o script.sh && cat script.sh && sh script.sh",
            "Inspect the script before executing it") >>

\* The for-of loop of getSuggestion from entry i on.
RECURSIVE SuggestionFrom(_, _)
SuggestionFrom(cmd, i) ==
    IF i > Len(suggestions) THEN Null
    ELSE IF Includes(cmd, suggestions[i].trigger) THEN suggestions[i]
    ELSE SuggestionFrom(cmd, i + 1)

\* getSuggestion keeping the last matching entry instead of returning at the
\* first.
RECURSIVE LastSuggestionFrom(_, _, _)
LastSuggestionFrom(cmd, i, found) ==
    IF i > Len(suggestions) THEN found
    ELSE LastSuggestionFrom(cmd, i + 1,
            IF Includes(cmd, suggestions[i].trigger) THEN suggestions[i] ELSE found)

getSuggestionLastMatch(cmd) == LastSuggestionFrom(cmd, 1, Null)

getSuggestion(cmd) == SuggestionFrom(cmd, 1)

getContextualSuggestion(tool, args) ==
    LET name == Str(tool) IN
    IF name = "npm" /\ ArrIncludes(args, <<"i", "n", "s", "t", "a", "l", "l">>)
    THEN StringV("Consider using npm ci for CI/CD (installs exact versions from package-lock.json)")
    ELSE IF name = "npm" /\ ArrIncludes(args, <<"u", "n", "i", "n", "s", "t", "a", "l", "l">>)
    THEN StringV("Backup your node_modules or use npm ci to restore from package-lock.json if needed")
    ELSE IF name = "docker" /\ args # <<>> /\ args[1] = <<"b", "u", "i", "l", "d">> /\ ArrIncludes(args, <<"-", "-", "n", "o", "-", "c", "a", "c", "h", "e">>)
    THEN StringV("Building without cache; this will take longer. Only use if you need fresh layers")
    ELSE IF name = "git" /\ ArrIncludes(args, <<"-", "-", "a", "m", "e", "n", "d">>)
    THEN StringV("Amending commits rewrites history. Only do this before pushing")
    ELSE Null

---------------------------------------------------------------------------
(* generateExplanation and generateDryRun                                  *)

handleGitExplanation(argStr) ==
    IF StartsWith(argStr, <<"p", "u", "s", "h">>)
    THEN (IF Includes(argStr, <<"-", "-", "f", "o", "r", "c", "e">>)
          THEN "Force-push: overwrites remote history. Risky on shared repos."
          ELSE "Uploads local commits to remote.")
    ELSE IF StartsWith(argStr, <<"r", "e", "s", "e", "t">>)
    THEN (IF Includes(argStr, <<"-", "-", "h", "a", "r", "d">>)
          THEN "Hard reset: discards ALL uncommitted changes irreversibly."
          ELSE "Resets to specified commit (soft/mixed mode).")
    ELSE IF StartsWith(argStr, <<"c", "l", "e", "a", "n">>)
    THEN (IF Includes(argStr, <<"-", "f">>)
          THEN "Force-clean: deletes untracked files."
          ELSE "Shows what would be deleted.")
    ELSE "Git operation."

handleDockerExplanation(argStr) ==
    IF StartsWith(argStr, <<"s", "y", "s", "t", "e", "m", " ", "p", "r", "u", "n", "e">>)
    THEN (IF Includes(argStr, <<"-", "a">>)
          THEN "Removes all unused images (including tagged). High-impact."
          ELSE "Removes only dangling resources.")
    ELSE IF StartsWith(argStr, <<"r", "m", "i">>)
    THEN "Permanently deletes image. Dependent containers will break."
    ELSE IF StartsWith(argStr, <<"r", "m">>)
    THEN "Deletes container(s). Data lost unless volume persists."
    ELSE "Docker operation."

handleNpmExplanation(argStr) ==
    IF Includes(argStr, <<"i", "n", "s", "t", "a", "l", "l">>)
    THEN "Installs npm packages. Can modify package-lock.json and node_modules."
    ELSE IF Includes(argStr, <<"u", "n", "i", "n", "s", "t", "a", "l", "l">>)
    THEN "Removes npm packages from node_modules and package.json."
    ELSE IF Includes(argStr, <<"p", "u", "b", "l", "i", "s", "h">>)
    THEN "Publishes package to npm registry. PERMANENT; cannot be undone easily."
    ELSE "npm package manager operation."

\* argStr[0] || 'unknown' and friends: the first character, when there is one.
FirstCharOr(argStr, dflt) == IF argStr = <<>> THEN dflt ELSE argStr[1]

\* The `explanations` object literal of generateExplanation.
explanations(argStr) ==
    [rm |-> "Deletes files/directories. " \o
            (IF Includes(argStr, <<"-", "r", "f">>)
             THEN "Recursive mode (-rf) deletes everything in path WITHOUT confirmation."
             ELSE IF Includes(argStr, <<"-", "r">>)
             THEN "Recursive mode (-r) deletes directories and contents."
             ELSE "Deletes specified files."),
     mv |-> "Moves/renames files. If target exists, it will be overwritten.",
     cp |-> "Copies files. " \o
            (IF Includes(argStr, <<"-", "r">>) THEN "Recursive mode (-r) copies directories." ELSE ""),
     git |-> "Git command: " \o FirstCharOr(argStr, "unknown") \o ". " \o
             handleGitExplanation(argStr),
     docker |-> "Docker command: " \o FirstCharOr(argStr, "unknown") \o ". " \o
                handleDockerExplanation(argStr),
     chmod |-> "Changes file permissions. " \o
               (IF argStr # <<>> THEN "Setting to " \o argStr[1] ELSE "Permission change") \o ".",
     chown |-> "Changes file owner. " \o
               (IF Includes(argStr, <<"-", "R">>)
                THEN "Recursive (-R) applies to all subdirectories." ELSE ""),
     dd |-> "Low-level disk copy utility. Extremely dangerous with wrong device parameters.",
     curl |-> "Fetches content from URL. " \o
              (IF Includes(argStr, <<"|">>)
               THEN "Piping to shell (| sh/bash) executes downloaded content!"
               ELSE "Shows content or downloads file."),
     wget |-> "Downloads files from URL. " \o
              (IF Includes(argStr, <<"|">>)
               THEN "Piping to shell executes the downloaded file!"
               ELSE "Saves to disk."),
     npm |-> handleNpmExplanation(argStr),
     node |-> "Executes JavaScript. " \o
              (IF Includes(argStr, <<"-", "e">>)
               THEN "Inline code execution with -e flag." ELSE "Runs script file.")]

\* explanations[tool] || `Executes: ${tool} ${argStr}`.  Every own value is a
\* non-empty string and every inherited one an object or function: all truthy.
generateExplanation(tool, args, analysis) ==
    LET argStr == Join(args, <<" ">>)
        name == Str(tool)
    IN IF name \in DOMAIN explanations(argStr)
       THEN StringV(explanations(argStr)[name])
       ELSE IF InheritedProperty(name) # Undefined
       THEN InheritedProperty(name)
       ELSE StringV("Executes: " \o name \o " " \o Str(argStr))

\* args.filter(a => !a.startsWith('-'))
NonFlagArgs(args) == SelectSeq(args, LAMBDA a : ~StartsWith(a, <<"-">>))

generateDryRun(tool, args, analysis) ==
    LET argStr == Join(args, <<" ">>)
        name == Str(tool)
    IN IF name = "rm"
       THEN "Would delete: " \o
            (IF NonFlagArgs(args) # <<>>
             THEN Str(Join(NonFlagArgs(args), <<",", " ">>)) ELSE "[target path]") \o
            (IF ArrIncludes(args, <<"-", "r", "f">>) THEN " (recursively, with all contents)" ELSE "") \o
            " WITHOUT recovery."
       ELSE IF name = "git" /\ args # <<>> /\ args[1] = <<"p", "u", "s", "h">> /\ ArrIncludes(args, <<"-", "-", "f", "o", "r", "c", "e">>)
       THEN "Would overwrite remote history with local commits. Team members with old clones would need to force-pull."
       ELSE IF name = "git" /\ args # <<>> /\ args[1] = <<"r", "e", "s", "e", "t">> /\ ArrIncludes(args, <<"-", "-", "h", "a", "r", "d">>)
       THEN "Would discard all uncommitted changes. Files would revert to last commit state."
       ELSE IF name = "docker" /\ Len(args) >= 2 /\ args[1] = <<"s", "y", "s", "t", "e", "m">> /\ args[2] = <<"p", "r", "u", "n", "e">>
       THEN "Would remove Docker " \o
            (IF ArrIncludes(args, <<"-", "a">>) THEN "images (including used ones)" ELSE "unused resources") \o
            ". Freed space would be reclaimed."
       ELSE IF name = "chmod"
       THEN "Would set permissions to " \o
            (IF args = <<>> THEN "undefined" ELSE Str(args[1])) \o " on " \o
            (IF Len(args) >= 2 THEN Str(Join(Tail(args), <<",", " ">>)) ELSE "[target]") \o "."
       ELSE "Would execute: " \o name \o " " \o Str(argStr)

---------------------------------------------------------------------------
(* analyzeCommand                                                          *)

\* The riskAnalysis local before analyzeRisks has run.
NoAnalysis == [found |-> FALSE, tool |-> "", risks |-> <<>>, description |-> Undefined]

\* suggestions.push(directedSuggestion.explanation), then
\* suggestions.push(contextualSuggestion), each when truthy.
SuggestionList(directed, contextual) ==
    (IF directed # Null THEN <<directed.explanation>> ELSE <<>>)
    \o (IF contextual # Null THEN <<contextual.str>> ELSE <<>>)

\* What analyzeCommand would assemble for an empty tool without the early
\* return of analyzer.js:28-38.
EmptyResultFallThrough(cmd) ==
    [tool |-> "", command |-> Str(cmd), riskLevel |-> "low", risks |-> <<>>,
     suggestions |-> <<>>, explanation |-> StringV("Executes:  "),
     dryRun |-> "Would execute:  ", directedSuggestion |-> Null]

\* The object returned for an empty tool (analyzer.js:28-38): it has no
\* directedSuggestion property, so reading it yields undefined.
EmptyResult(cmd) ==
    [tool |-> "", command |-> Str(cmd), riskLevel |-> "low", risks |-> <<>>,
     suggestions |-> <<>>, explanation |-> StringV("Empty command."),
     dryRun |-> "No operation would occur.", directedSuggestion |-> Undefined]

\* The riskAnalysis local of analyzeCommand (analyzer.js:41); analyzeRisks is
\* not called for an empty tool.
RiskAnalysisOf(cmd) ==
    LET parsed == parseCommand(cmd) IN
    IF parsed.tool = <<>> THEN NoAnalysis
    ELSE analyzeRisks(parsed.tool, parsed.args)

analyzeCommand(cmd) ==
    LET parsed == parseCommand(cmd) IN
    IF parsed.tool = <<>> THEN EmptyResult(cmd)
    ELSE LET tool == parsed.tool
             args == parsed.args
             analysis == RiskAnalysisOf(cmd)
             pipeRisks == checkPipeRisks(cmd, tool, args, analysis)
             allRisks == analysis.risks \o pipeRisks
             directedSuggestion == getSuggestion(cmd)
             contextualSuggestion == getContextualSuggestion(tool, args)
         IN [tool |-> Str(tool), command |-> Str(cmd),
             riskLevel |-> getRiskLevel(allRisks), risks |-> allRisks,
             suggestions |-> SuggestionList(directedSuggestion, contextualSuggestion),
             explanation |-> generateExplanation(tool, args, analysis),
             dryRun |-> generateDryRun(tool, args, analysis),
             directedSuggestion |-> directedSuggestion]

---------------------------------------------------------------------------
(* The commands analysed                                                   *)

\* The chunk vocabularies.  A command is made of the chunks of one of them,
\* joined by single spaces as the CLI joins its positional arguments
\* (commandArgs.join(' '), cmdguard.js:25); a chunk may itself hold spaces,
\* as a quoted shell argument does.  The empty chunk and the chunks that end
\* in or are white space give leading and trailing white space and runs of
\* it between tokens.
Families ==
    << {<<"r", "m">>, <<"-", "r", "f">>, <<"-", "r", "f", "x">>, <<"-", "r">>, <<"-", "f">>, <<"/", "t", "m", "p">>, <<>>},
       {<<"c", "h", "m", "o", "d">>, <<"c", "h", "o", "w", "n">>, <<"7", "7", "7">>, <<"7", "5", "5">>, <<"-", "R">>, <<"f", ".", "t", "x", "t">>},
       {<<"g", "i", "t">>, <<"p", "u", "s", "h">>, <<"g", "i", "t", " ", "p", "u", "s", "h">>, <<"o", "r", "i", "g", "i", "n", " ", "m", "a", "i", "n">>, <<"-", "-", "f", "o", "r", "c", "e">>, <<"-", "-", "a", "m", "e", "n", "d">>, <<>>},
       {<<"g", "i", "t">>, <<"c", "l", "e", "a", "n">>, <<"-", "f", "d">>, <<"-", "f">>, <<"r", "e", "s", "e", "t">>, <<"-", "-", "h", "a", "r", "d">>},
       {<<"d", "o", "c", "k", "e", "r">>, <<"d", "o", "c", "k", "e", "r", " ", "s", "y", "s", "t", "e", "m", " ", "p", "r", "u", "n", "e">>, <<"s", "y", "s", "t", "e", "m">>, <<"p", "r", "u", "n", "e">>, <<"-", "a">>, <<"-", "-", "v", "o", "l", "u", "m", "e", "s">>, <<>>},
       {<<"d", "o", "c", "k", "e", "r">>, <<"r", "m">>, <<"r", "m", "i">>, <<"-", "f">>, <<"b", "u", "i", "l", "d">>, <<"-", "-", "n", "o", "-", "c", "a", "c", "h", "e">>},
       {<<"c", "u", "r", "l", " ", "u", "r", "l">>, <<"|">>, <<"|", " ">>, <<"s", "h">>, <<"|", "s", "h">>, <<"s", "h", "a", "s", "u", "m">>, <<"b", "a", "s", "h">>},
       {<<"w", "g", "e", "t", " ", "-", "q", "O", "-", " ", "u", "r", "l">>, <<"|">>, <<"|", "b", "a", "s", "h">>, <<"b", "a", "s", "h">>, <<"b", "a", "s", "h", "f", "u", "l">>, <<"s", "h">>, <<>>},
       {<<"s", "u", "d", "o">>, <<"r", "m", " ", "-", "r", "f", " ", "/">>, <<"l", "s">>, <<"d", "d">>, <<"i", "f", "=", "/", "d", "e", "v", "/", "s", "d", "a">>, <<"o", "f", "=", "/", "d", "e", "v", "/", "s", "d", "b">>},
       {<<"r", "m", " ", "-", "r", "f">>, <<"g", "i", "t", " ", "p", "u", "s", "h", " ", "-", "-", "f", "o", "r", "c", "e">>, <<"r", "m", " ", "-", "-", "f", "o", "r", "c", "e", " ", "-", "-", "r", "e", "c", "u", "r", "s", "i", "v", "e">>, <<"e", "c", "h", "o">>,
        <<"d", "o", "c", "k", "e", "r", " ", "s", "y", "s", "t", "e", "m", " ", "p", "r", "u", "n", "e", " ", "-", "a">>, <<"c", "u", "r", "l", " ", "|", " ", "s", "h">>},
       {<<"l", "s">>, <<"-", "l", "a">>, <<"c", "o", "n", "s", "t", "r", "u", "c", "t", "o", "r">>, <<"_", "_", "p", "r", "o", "t", "o", "_", "_">>, <<"t", "o", "S", "t", "r", "i", "n", "g">>, <<>>, <<"\t">>},
       {<<"n", "p", "m">>, <<"i", "n", "s", "t", "a", "l", "l">>, <<"u", "n", "i", "n", "s", "t", "a", "l", "l">>, <<"p", "u", "b", "l", "i", "s", "h">>, <<"n", "o", "d", "e">>, <<"-", "e">>},
       {<<"m", "v">>, <<"c", "p">>, <<"-", "r">>, <<"a">>, <<"b">>},
       {<<"c", "u", "r", "l", " ", "u", "r", "l", " ", "|", " ", "b", "a", "s", "h">>, <<"|">>, <<"s", "h">>, <<"-", "s">>} >>

\* The result variable before analyzeCommand has returned.
NotYet == [pending |-> TRUE]

\* The line variable before readline has delivered a line.
NoLine == [got |-> FALSE, text |-> <<>>]

\* The CLI's state before the action callback has done anything.
CliIdle ==
    /\ simulate = FALSE
    /\ stdinEnded = FALSE
    /\ displayed = FALSE
    /\ prompted = FALSE
    /\ line = NoLine
    /\ promise = "pending"
    /\ child = "none"
    /\ childCode = 0
    /\ exitCode = 0

Init ==
    /\ family \in 1..Len(Families)
    /\ command = <<>>
    /\ typed = 0
    /\ pc = "typing"
    /\ riskAnalysis = NoAnalysis
    /\ result = NotYet
    /\ cpc = "none"
    /\ CliIdle

\* The first positional argument of the command line.
TypeFirst(chunk) ==
    /\ pc = "typing"
    /\ cpc \in {"none", "argv"}
    /\ typed = 0
    /\ command' = chunk
    /\ typed' = 1
    /\ UNCHANGED <<family, pc, riskAnalysis, result>>
    /\ UNCHANGED cliVars

\* A further positional argument, joined on with one space.
TypeMore(chunk) ==
    /\ pc = "typing"
    /\ cpc \in {"none", "argv"}
    /\ typed >= 1
    /\ typed < MaxChunks
    /\ command' = command \o <<" ">> \o chunk
    /\ typed' = typed + 1
    /\ UNCHANGED <<family, pc, riskAnalysis, result>>
    /\ UNCHANGED cliVars

\* analyzeCommand(command), called directly as the tests call it.
Analyze ==
    /\ pc = "typing"
    /\ cpc = "none"
    /\ pc' = "analyzed"
    /\ result' = analyzeCommand(command)
    /\ riskAnalysis' = RiskAnalysisOf(command)
    /\ UNCHANGED <<family, command, typed>>
    /\ UNCHANGED cliVars

Next ==
    \/ \E chunk \in Families[family] : TypeFirst(chunk)
    \/ \E chunk \in Families[family] : TypeMore(chunk)
    \/ Analyze

Spec == Init /\ [][Next]_vars


(***************************************************************************)
(* The command line program, bin/cmdguard.js.                              *)
(***************************************************************************)

\* The vocabularies the CLI runs type their positional arguments from.
CliFamilies == {11, 14}

\* What a pipe into cmdguard can deliver before it ends.
StdinInputs == {<<>>, <<"\n">>, <<"l", "s", " ", "-", "l", "a", "\n">>, <<"r", "m", " ", "-", "r", "f", " ", "/", "t", "m", "p", "\n">>}

\* The lines a user answers the prompt with.
PromptAnswers == {<<>>, <<"y">>, <<"Y">>, <<"y", "e", "s">>, <<"Y", "e", "s">>, <<"y", "E", "s">>, <<"Y", "E", "S">>, <<"n">>,
                  <<"n", "o">>, <<" ", "y">>, <<"y", "e", "s", "!">>}

\* The exit codes the spawned shell reports.
ChildExitCodes == {0, 1, 127}

UpperCaseLetters ==
    <<"A", "B", "C", "D", "E", "F", "G", "H", "I", "J", "K", "L", "M", "N", "O", "P", "Q", "R", "S", "T", "U", "V", "W", "X", "Y", "Z">>

LowerCaseLetters ==
    <<"a", "b", "c", "d", "e", "f", "g", "h", "i", "j", "k", "l", "m", "n", "o", "p", "q", "r", "s", "t", "u", "v", "w", "x", "y", "z">>

\* answer.toLowerCase()
toLowerCase(s) ==
    [i \in 1..Len(s) |->
        IF \E k \in 1..Len(UpperCaseLetters) : UpperCaseLetters[k] = s[i]
        THEN LowerCaseLetters[CHOOSE k \in 1..Len(UpperCaseLetters) :
                                  UpperCaseLetters[k] = s[i]]
        ELSE s[i]]

\* answer.toLowerCase() === 'y' || answer.toLowerCase() === 'yes'
AnswerResolvesTo(answer) ==
    IF toLowerCase(answer) = <<"y">> \/ toLowerCase(answer) = <<"y", "e", "s">>
    THEN "true" ELSE "false"

\* A promise settles once: a later resolve() leaves it as it is.
Resolve(p, value) == IF p = "pending" THEN value ELSE p

\* process.exit(code)
Exit(code) ==
    /\ cpc' = "exited"
    /\ exitCode' = code

\* A cmdguard process is launched and its command line is being given.
CliInit ==
    /\ family \in CliFamilies
    /\ command = <<>>
    /\ typed = 0
    /\ pc = "typing"
    /\ riskAnalysis = NoAnalysis
    /\ result = NotYet
    /\ cpc = "argv"
    /\ CliIdle

\* commander calls the action with the positional arguments and the options:
\* the arguments joined with spaces, or a pipe to read, or nothing.
Start(sim, isTTY) ==
    /\ cpc = "argv"
    /\ simulate' = sim
    /\ cpc' = IF typed > 0 THEN "check"
              ELSE IF ~isTTY THEN "reading" ELSE "check"
    /\ UNCHANGED engineVars
    /\ UNCHANGED <<stdinEnded, displayed, prompted, line, promise, child,
                   childCode, exitCode>>

\* readStdin(): process.stdin ends and the promise resolves with data.trim().
ReadStdin(data) ==
    /\ cpc = "reading"
    /\ command' = Trim(data)
    /\ stdinEnded' = TRUE
    /\ cpc' = "check"
    /\ UNCHANGED <<family, typed, pc, riskAnalysis, result>>
    /\ UNCHANGED <<simulate, displayed, prompted, line, promise, child,
                   childCode, exitCode>>

\* if (!commandStr.trim()) { ...; process.exit(1) }
CheckCommand ==
    /\ cpc = "check"
    /\ IF Trim(command) = <<>>
       THEN Exit(1)
       ELSE cpc' = "analyze" /\ UNCHANGED exitCode
    /\ UNCHANGED engineVars
    /\ UNCHANGED <<simulate, stdinEnded, displayed, prompted, line, promise,
                   child, childCode>>

\* const analysis = analyzeCommand(commandStr)
CliAnalyze ==
    /\ cpc = "analyze"
    /\ pc' = "analyzed"
    /\ result' = analyzeCommand(command)
    /\ riskAnalysis' = RiskAnalysisOf(command)
    /\ cpc' = "display"
    /\ UNCHANGED <<family, command, typed>>
    /\ UNCHANGED <<simulate, stdinEnded, displayed, prompted, line, promise,
                   child, childCode, exitCode>>

\* console.log(formatAnalysis(analysis))
Display ==
    /\ cpc = "display"
    /\ displayed' = TRUE
    /\ cpc' = "options"
    /\ UNCHANGED engineVars
    /\ UNCHANGED <<simulate, stdinEnded, prompted, line, promise, child,
                   childCode, exitCode>>

\* if (options.simulate) process.exit(0), else promptConfirm() is called and
\* awaited.
SimulateOrPrompt ==
    /\ cpc = "options"
    /\ IF simulate
       THEN Exit(0) /\ UNCHANGED prompted
       ELSE prompted' = TRUE /\ cpc' = "prompt" /\ UNCHANGED exitCode
    /\ UNCHANGED engineVars
    /\ UNCHANGED <<simulate, stdinEnded, displayed, line, promise, child,
                   childCode>>

\* readline delivers a line: the 'line' handler calls rl.close() and then
\* resolve(answer is y or yes).  rl.close() emits 'close', whose handler calls
\* resolve(false): inside the call (closeFirst, what Node's readline does) or
\* after the 'line' handler has returned.
OnLine(answer, closeFirst) ==
    /\ cpc = "prompt"
    /\ promise = "pending"
    /\ ~stdinEnded
    /\ line' = [got |-> TRUE, text |-> answer]
    /\ promise' = IF closeFirst
                  THEN Resolve(Resolve(promise, "false"),
                               AnswerResolvesTo(answer))
                  ELSE Resolve(Resolve(promise, AnswerResolvesTo(answer)),
                               "false")
    /\ UNCHANGED engineVars
    /\ UNCHANGED <<cpc, simulate, stdinEnded, displayed, prompted, child,
                   childCode, exitCode>>

\* The input ends without a line: readline emits 'close' and its handler
\* calls resolve(false).
OnClose ==
    /\ cpc = "prompt"
    /\ promise = "pending"
    /\ promise' = Resolve(promise, "false")
    /\ UNCHANGED engineVars
    /\ UNCHANGED <<cpc, simulate, stdinEnded, displayed, prompted, line,
                   child, childCode, exitCode>>

\* The prompt reads a stream readStdin already read to its end: if readline
\* emits nothing for it, nothing is left to wait for and the process ends.
Drain ==
    /\ cpc = "prompt"
    /\ promise = "pending"
    /\ stdinEnded
    /\ Exit(0)
    /\ UNCHANGED engineVars
    /\ UNCHANGED <<simulate, stdinEnded, displayed, prompted, line, promise,
                   child, childCode>>

\* const shouldExecute = await promptConfirm(); cancel with process.exit(0),
\* or executeCommand(commandStr) spawns the shell.
AfterPromptAlways ==
    /\ cpc = "prompt"
    /\ promise # "pending"
    /\ child' = "running"
    /\ cpc' = "executing"
    /\ UNCHANGED engineVars
    /\ UNCHANGED <<simulate, stdinEnded, displayed, prompted, line, promise,
                   childCode, exitCode>>

AfterPrompt ==
    /\ cpc = "prompt"
    /\ promise # "pending"
    /\ IF promise = "false"
       THEN Exit(0) /\ UNCHANGED child
       ELSE child' = "running" /\ cpc' = "executing" /\ UNCHANGED exitCode
    /\ UNCHANGED engineVars
    /\ UNCHANGED <<simulate, stdinEnded, displayed, prompted, line, promise,
                   childCode>>

\* child.on('close'): the output is printed, the promise resolves, the action
\* returns and the process ends with nothing left to do.
OnChildClosePropagating(code) ==
    /\ cpc = "executing"
    /\ child = "running"
    /\ child' = "closed"
    /\ childCode' = code
    /\ Exit(code)
    /\ UNCHANGED engineVars
    /\ UNCHANGED <<simulate, stdinEnded, displayed, prompted, line, promise>>

OnChildClose(code) ==
    /\ cpc = "executing"
    /\ child = "running"
    /\ child' = "closed"
    /\ childCode' = code
    /\ Exit(0)
    /\ UNCHANGED engineVars
    /\ UNCHANGED <<simulate, stdinEnded, displayed, prompted, line, promise>>

\* child.on('error'): the promise rejects, the catch block prints the error
\* and calls process.exit(1).
OnChildError ==
    /\ cpc = "executing"
    /\ child = "running"
    /\ child' = "error"
    /\ Exit(1)
    /\ UNCHANGED engineVars
    /\ UNCHANGED <<simulate, stdinEnded, displayed, prompted, line, promise,
                   childCode>>

CliNext ==
    \/ \E chunk \in Families[family] : TypeFirst(chunk)
    \/ \E chunk \in Families[family] : TypeMore(chunk)
    \/ \E sim \in BOOLEAN, isTTY \in BOOLEAN : Start(sim, isTTY)
    \/ \E data \in StdinInputs : ReadStdin(data)
    \/ CheckCommand
    \/ CliAnalyze
    \/ Display
    \/ SimulateOrPrompt
    \/ \E answer \in PromptAnswers, closeFirst \in BOOLEAN :
           OnLine(answer, closeFirst)
    \/ OnClose
    \/ Drain
    \/ AfterPrompt
    \/ \E code \in ChildExitCodes : OnChildClose(code)
    \/ OnChildError

CliSpec == CliInit /\ [][CliNext]_vars

---------------------------------------------------------------------------
(* Properties                                                              *)

\* The command under analysis, split as analyzeCommand splits it.
Tool == Str(parseCommand(command).tool)
Args == parseCommand(command).args
Analyzed == pc = "analyzed"

Severities == {"low", "medium", "high"}
SeverityRank == [low |-> 0, medium |-> 1, high |-> 2]

\* The greatest severity among the findings, low being the floor.
MaxSeverity(findings) ==
    LET present == {"low"} \cup {findings[i].risk : i \in 1..Len(findings)}
    IN CHOOSE s \in present : \A t \in present : SeverityRank[t] <= SeverityRank[s]

HasFinding(findings, how, k) ==
    \E i \in 1..Len(findings) : findings[i].by = how /\ findings[i].key = k

\* C1: the riskLevel of every result is the maximum severity (low < medium <
\* high) over the findings of the same result, and low when there are none.
C1_RiskLevelIsMaxSeverity ==
    Analyzed =>
        /\ \A i \in 1..Len(result.risks) : result.risks[i].risk \in Severities
        /\ result.riskLevel = MaxSeverity(result.risks)

\* C1 witness: a result whose findings hold a high and a lower severity.
C1_Witness ==
    /\ Analyzed
    /\ \E i, j \in 1..Len(result.risks) :
          /\ result.risks[i].risk = "high"
          /\ result.risks[j].risk \in {"low", "medium"}
    /\ result.riskLevel = "high"

\* C2: every result is well formed: a riskLevel among low, medium, high, an
\* explanation that is a string, and a directedSuggestion that is a suggestion
\* rule or null.  (Stated as the claim has it; the code violates it.)
C2_ResultWellFormed ==
    Analyzed =>
        /\ result.riskLevel \in Severities
        /\ \A i \in 1..Len(result.risks) : result.risks[i].risk \in Severities
        /\ result.explanation.type = "string"
        /\ result.directedSuggestion.type \in {"object", "null"}

\* C3: for a tool with a flat risk list, a flag-keyed entry is reported by
\* analyzeRisks exactly when some argument token equals the flag.
C3_FlagMatchIsExactToken ==
    Analyzed /\ Tool \in DOMAIN riskPatterns /\ riskPatterns[Tool].hasRisks =>
        \A i \in 1..Len(riskPatterns[Tool].risks) :
            LET e == riskPatterns[Tool].risks[i] IN
            e.by = "flag" =>
                (HasFinding(riskAnalysis.risks, "flag", Str(e.key))
                    <=> \E k \in 1..Len(Args) : Args[k] = e.key)

\* C3 witness: `rm` with the token -rfx, without the token -rf, and no -rf
\* finding.
C3_Witness ==
    /\ Analyzed
    /\ Tool = "rm"
    /\ ArrIncludes(Args, <<"-", "r", "f", "x">>)
    /\ ~ArrIncludes(Args, <<"-", "r", "f">>)
    /\ ~HasFinding(riskAnalysis.risks, "flag", "-rf")
    /\ riskAnalysis.found

\* C4: every risk entry the catalog declares under a subcommand, or one level
\* deeper, is reported by analyzeRisks when the leading argument tokens name
\* the subcommand (path) and the flag is among the tokens.  (Stated as the
\* claim has it; the code violates it.)
C4_DeclaredSubcommandEntriesReported ==
    Analyzed /\ Tool \in DOMAIN riskPatterns /\ riskPatterns[Tool].hasSubcommands =>
        LET subs == riskPatterns[Tool].subcommands IN
        \A s \in DOMAIN subs :
            /\ \A i \in 1..Len(subs[s].risks) :
                  LET e == subs[s].risks[i] IN
                  (Len(Args) >= 1 /\ Str(Args[1]) = s /\ ArrIncludes(Args, e.key))
                      => HasFinding(riskAnalysis.risks, "flag", Str(e.key))
            /\ \A n \in DOMAIN subs[s].nested :
                  \A i \in 1..Len(subs[s].nested[n].risks) :
                      LET e == subs[s].nested[n].risks[i] IN
                      (/\ Len(Args) >= 2
                       /\ Str(Args[1]) = s
                       /\ Str(Args[2]) = n
                       /\ ArrIncludes(Args, e.key))
                          => HasFinding(riskAnalysis.risks, "flag", Str(e.key))

\* The raw command has a `|` followed, after any amount of white space, by the
\* word sh or bash.
PipesIntoShell(cmd) ==
    \E i \in 1..Len(cmd) :
        /\ cmd[i] = "|"
        /\ LET rest == TrimStart(SubSeq(cmd, i + 1, Len(cmd))) IN
           rest # <<>> /\ SplitWs(rest)[1] \in {<<"s", "h">>, <<"b", "a", "s", "h">>}

\* C5: a curl or wget command piped into sh or bash, however the pipe is
\* spaced, has riskLevel high and a high pipe-to-shell finding.  (Stated as
\* the claim has it; the code violates it.)
C5_PipeToShellIsHigh ==
    Analyzed /\ Tool \in {"curl", "wget"} /\ PipesIntoShell(command) =>
        /\ result.riskLevel = "high"
        /\ \E i \in 1..Len(result.risks) :
              /\ result.risks[i].risk = "high"
              /\ result.risks[i].by = "pattern"
              /\ result.risks[i].key \in {"| sh", "| bash"}

IsDockerSystemPrune ==
    /\ Tool = "docker"
    /\ Len(Args) >= 2
    /\ Args[1] = <<"s", "y", "s", "t", "e", "m">>
    /\ Args[2] = <<"p", "r", "u", "n", "e">>

\* C6: `docker system prune` with the token -a anywhere among its arguments
\* has riskLevel high and a high finding with flag -a; without the tokens -a
\* and --volumes it has no -a finding.
C6_DockerSystemPruneAll ==
    Analyzed /\ IsDockerSystemPrune =>
        /\ ArrIncludes(Args, <<"-", "a">>) =>
              /\ result.riskLevel = "high"
              /\ \E i \in 1..Len(result.risks) :
                    /\ result.risks[i].by = "flag"
                    /\ result.risks[i].key = "-a"
                    /\ result.risks[i].risk = "high"
        /\ (~ArrIncludes(Args, <<"-", "a">>) /\ ~ArrIncludes(Args, <<"-", "-", "v", "o", "l", "u", "m", "e", "s">>)) =>
              ~HasFinding(result.risks, "flag", "-a")

\* C6 witness: -a typed after another argument of `docker system prune`, and
\* reported.
C6_Witness ==
    /\ Analyzed
    /\ IsDockerSystemPrune
    /\ Len(Args) >= 4
    /\ Args[3] # <<"-", "a">>
    /\ Args[4] = <<"-", "a">>
    /\ HasFinding(result.risks, "flag", "-a")
    /\ result.riskLevel = "high"

\* The catalog positions of the suggestion rules whose trigger occurs in cmd.
TriggeredRules(cmd) ==
    {i \in 1..Len(suggestions) : Includes(cmd, suggestions[i].trigger)}

\* Where needle first occurs in hay (0 when it does not).
IndexOf(hay, needle) ==
    IF Includes(hay, needle)
    THEN CHOOSE i \in 1..Len(hay) :
            /\ StartsWith(SubSeq(hay, i, Len(hay)), needle)
            /\ \A j \in 1..(i - 1) : ~StartsWith(SubSeq(hay, j, Len(hay)), needle)
    ELSE 0

\* C7: the directed suggestion of a command is the earliest-declared rule
\* whose trigger is a substring of the raw command, and null when no trigger
\* occurs in it.
C7_FirstDeclaredTriggerWins ==
    Analyzed =>
        /\ IF TriggeredRules(command) = {}
           THEN getSuggestion(command) = Null
           ELSE \E i \in TriggeredRules(command) :
                   /\ \A j \in TriggeredRules(command) : i <= j
                   /\ getSuggestion(command) = suggestions[i]
        /\ result.tool # "" => result.directedSuggestion = getSuggestion(command)

\* C7 witness: `git push --force` occurs in the command before `rm -rf`, and
\* the rule of `rm -rf`, declared first, is the one returned.
C7_Witness ==
    /\ Analyzed
    /\ Includes(command, <<"r", "m", " ", "-", "r", "f">>)
    /\ Includes(command, <<"g", "i", "t", " ", "p", "u", "s", "h", " ", "-", "-", "f", "o", "r", "c", "e">>)
    /\ IndexOf(command, <<"g", "i", "t", " ", "p", "u", "s", "h", " ", "-", "-", "f", "o", "r", "c", "e">>) < IndexOf(command, <<"r", "m", " ", "-", "r", "f">>)
    /\ result.directedSuggestion = suggestions[1]

\* The characters of every text analyzeCommand can push onto `suggestions`:
\* the explanation of each suggestion rule and the four contextual texts.
AdviceChars ==
    { <<"I", "n", "t", "e", "r", "a", "c", "t", "i", "v", "e", " ", "m", "o", "d", "e", " ", "p", "r", "o", "m", "p", "t", "s", " ", "b", "e", "f", "o", "r", "e", " ", "e", "a", "c", "h", " ", "d", "e", "l", "e", "t", "i", "o", "n">>,
      <<"O", "n", "l", "y", " ", "f", "o", "r", "c", "e", "-", "p", "u", "s", "h", " ", "i", "f", " ", "r", "e", "m", "o", "t", "e", " ", "h", "a", "s", "n", "'", "t", " ", "c", "h", "a", "n", "g", "e", "d", ";", " ", "s", "a", "f", "e", "r", " ", "f", "o", "r", " ", "s", "h", "a", "r", "e", "d", " ", "r", "e", "p", "o", "s">>,
      <<"P", "r", "e", "s", "e", "r", "v", "e", "s", " ", "c", "o", "m", "m", "i", "t", " ", "h", "i", "s", "t", "o", "r", "y", " ", "i", "n", " ", "c", "a", "s", "e", " ", "y", "o", "u", " ", "n", "e", "e", "d", " ", "t", "o", " ", "r", "e", "c", "o", "v", "e", "r">>,
      <<"W", "i", "t", "h", "o", "u", "t", " ", "-", "a", ",", " ", "o", "n", "l", "y", " ", "r", "e", "m", "o", "v", "e", "s", " ", "d", "a", "n", "g", "l", "i", "n", "g", " ", "i", "m", "a", "g", "e", "s", ".", " ", "S", "a", "f", "e", "r", " ", "f", "o", "r", " ", "p", "r", "o", "d", "u", "c", "t", "i", "o", "n">>,
      <<"R", "e", "s", "t", "r", "i", "c", "t", "s", " ", "a", "c", "c", "e", "s", "s", " ", "t", "o", " ", "o", "w", "n", "e", "r", "+", "g", "r", "o", "u", "p", ",", " ", "n", "o", "t", " ", "w", "o", "r", "l", "d", "-", "r", "e", "a", "d", "a", "b", "l", "e">>,
      <<"I", "n", "s", "p", "e", "c", "t", " ", "t", "h", "e", " ", "s", "c", "r", "i", "p", "t", " ", "b", "e", "f", "o", "r", "e", " ", "e", "x", "e", "c", "u", "t", "i", "n", "g", " ", "i", "t">>,
      <<"C", "o", "n", "s", "i", "d", "e", "r", " ", "u", "s", "i", "n", "g", " ", "n", "p", "m", " ", "c", "i", " ", "f", "o", "r", " ", "C", "I", "/", "C", "D", " ", "(", "i", "n", "s", "t", "a", "l", "l", "s", " ", "e", "x", "a", "c", "t", " ", "v", "e", "r", "s", "i", "o", "n", "s", " ", "f", "r", "o", "m", " ", "p", "a", "c", "k", "a", "g", "e", "-", "l", "o", "c", "k", ".", "j", "s", "o", "n", ")">>,
      <<"B", "a", "c", "k", "u", "p", " ", "y", "o", "u", "r", " ", "n", "o", "d", "e", "_", "m", "o", "d", "u", "l", "e", "s", " ", "o", "r", " ", "u", "s", "e", " ", "n", "p", "m", " ", "c", "i", " ", "t", "o", " ", "r", "e", "s", "t", "o", "r", "e", " ", "f", "r", "o", "m", " ", "p", "a", "c", "k", "a", "g", "e", "-", "l", "o", "c", "k", ".", "j", "s", "o", "n", " ", "i", "f", " ", "n", "e", "e", "d", "e", "d">>,
      <<"B", "u", "i", "l", "d", "i", "n", "g", " ", "w", "i", "t", "h", "o", "u", "t", " ", "c", "a", "c", "h", "e", ";", " ", "t", "h", "i", "s", " ", "w", "i", "l", "l", " ", "t", "a", "k", "e", " ", "l", "o", "n", "g", "e", "r", ".", " ", "O", "n", "l", "y", " ", "u", "s", "e", " ", "i", "f", " ", "y", "o", "u", " ", "n", "e", "e", "d", " ", "f", "r", "e", "s", "h", " ", "l", "a", "y", "e", "r", "s">>,
      <<"A", "m", "e", "n", "d", "i", "n", "g", " ", "c", "o", "m", "m", "i", "t", "s", " ", "r", "e", "w", "r", "i", "t", "e", "s", " ", "h", "i", "s", "t", "o", "r", "y", ".", " ", "O", "n", "l", "y", " ", "d", "o", " ", "t", "h", "i", "s", " ", "b", "e", "f", "o", "r", "e", " ", "p", "u", "s", "h", "i", "n", "g">> }

\* The text, one of the above, has needle as a substring.
Mentions(text, needle) ==
    Includes(CHOOSE t \in AdviceChars : Str(t) = text, needle)

\* C8: `git push` with the token --force has riskLevel high and at least one
\* entry of `suggestions` that references --force-with-lease.  (Stated as the
\* claim has it; the code violates it.)
C8_ForcePushSuggestsForceWithLease ==
    (/\ Analyzed
     /\ Tool = "git"
     /\ Len(Args) >= 1
     /\ Args[1] = <<"p", "u", "s", "h">>
     /\ ArrIncludes(Args, <<"-", "-", "f", "o", "r", "c", "e">>)) =>
        /\ result.riskLevel = "high"
        /\ \E i \in 1..Len(result.suggestions) :
              Mentions(result.suggestions[i], <<"-", "-", "f", "o", "r", "c", "e", "-", "w", "i", "t", "h", "-", "l", "e", "a", "s", "e">>)

\* C9: a command whose tool is sudo has the catalog's sudo finding among its
\* findings, so its riskLevel is at least medium.  (Stated as the claim has
\* it; the code violates it.)
C9_SudoIsRecognized ==
    Analyzed /\ Tool = "sudo" =>
        /\ \E i \in 1..Len(result.risks) :
              /\ result.risks[i].risk = "medium"
              /\ result.risks[i].reason =
                    "Executing with root privileges; verify command is safe"
        /\ result.riskLevel \in {"medium", "high"}

\* C10: a tool with no catalog entry and no template of its own is analysed
\* without failure: found = false, no findings, riskLevel low, and the
\* generic explanation and dry-run texts.  (Stated as the claim has it; the
\* code violates it.)
C10_UnknownToolDegradesToGeneric ==
    (/\ Analyzed
     /\ Tool # ""
     /\ Tool \notin DOMAIN riskPatterns
     /\ Tool \notin DOMAIN explanations(<<>>)) =>
        /\ riskAnalysis.found = FALSE
        /\ riskAnalysis.risks = <<>>
        /\ result.riskLevel = "low"
        /\ result.risks = <<>>
        /\ result.explanation =
              StringV("Executes: " \o Tool \o " " \o Str(Join(Args, <<" ">>)))
        /\ result.dryRun = "Would execute: " \o Tool \o " " \o Str(Join(Args, <<" ">>))

IsBlank(cs) == \A i \in 1..Len(cs) : IsSpace(cs[i])

\* C11: an empty or white-space-only command gets the degenerate result:
\* tool "", riskLevel low, no findings, no suggestions, explanation
\* "Empty command." and dry-run "No operation would occur."; analyzeRisks is
\* not consulted and no suggestion rule is attached.
C11_EmptyCommandIsDegenerate ==
    Analyzed /\ IsBlank(command) =>
        /\ result.tool = ""
        /\ result.riskLevel = "low"
        /\ result.risks = <<>>
        /\ result.suggestions = <<>>
        /\ result.explanation = StringV("Empty command.")
        /\ result.dryRun = "No operation would occur."
        /\ result.directedSuggestion.type # "object"
        /\ riskAnalysis = NoAnalysis

\* C11 witness: a command of white space only, analysed.
C11_Witness ==
    /\ Analyzed
    /\ command # <<>>
    /\ IsBlank(command)
    /\ result.explanation = StringV("Empty command.")

\* The maximal runs of non-white-space characters of cs, left to right.
TokenStarts(cs) ==
    {i \in 1..Len(cs) : ~IsSpace(cs[i]) /\ (i = 1 \/ IsSpace(cs[i - 1]))}

TokenEnd(cs, i) ==
    CHOOSE j \in i..Len(cs) :
        /\ \A k \in i..j : ~IsSpace(cs[k])
        /\ j = Len(cs) \/ IsSpace(cs[j + 1])

TokenRuns(cs) ==
    [n \in 1..Cardinality(TokenStarts(cs)) |->
        LET i == CHOOSE s \in TokenStarts(cs) :
                    Cardinality({r \in TokenStarts(cs) : r < s}) = n - 1
        IN SubSeq(cs, i, TokenEnd(cs, i))]

\* cs with every white-space character made a run of three and white space
\* put around it: another string with the same tokens.
RECURSIVE Widened(_)
Widened(cs) ==
    IF cs = <<>> THEN <<>>
    ELSE (IF IsSpace(Head(cs)) THEN <<" ", "\t", " ">> ELSE <<Head(cs)>>)
         \o Widened(Tail(cs))

Respaced(cs) == <<"\t", " ">> \o Widened(cs) \o <<" ">>

\* C12: parseCommand yields the maximal non-white-space runs of its input,
\* the first as tool and the rest, in order, as args (tool "" and no args
\* when there is none); no token is empty or holds white space; and a string
\* with the same tokens but other white space parses to the same value.
C12_ParseIsWhitespaceInsensitive ==
    LET parsed == parseCommand(command)
        runs == TokenRuns(command)
    IN /\ IF runs = <<>>
          THEN parsed = [tool |-> <<>>, args |-> <<>>]
          ELSE parsed = [tool |-> runs[1], args |-> Tail(runs)]
       /\ \A i \in 1..Len(parsed.args) :
             /\ parsed.args[i] # <<>>
             /\ \A k \in 1..Len(parsed.args[i]) : ~IsSpace(parsed.args[i][k])
       /\ \A k \in 1..Len(parsed.tool) : ~IsSpace(parsed.tool[k])
       /\ parseCommand(Respaced(command)) = parsed

\* C12 witness: a run of several white-space characters between two tokens.
C12_Witness ==
    /\ \E i \in 2..(Len(command) - 2) :
          /\ ~IsSpace(command[i - 1])
          /\ IsSpace(command[i])
          /\ IsSpace(command[i + 1])
          /\ \E j \in (i + 2)..Len(command) : ~IsSpace(command[j])
    /\ parseCommand(command).args # <<>>

PipeReason == "Piping to shell executes downloaded content without inspection"
PruneAllReason == "Removes all unused images including tagged ones"

\* Where the matcher and the heuristics can have taken finding f from: the
\* position of its entry in the tool's flat list, 100 + its position in the
\* list of the subcommand named by the first argument, 201 or 202 for the two
\* heuristics of checkPipeRisks, and 0 for none of these.
SourceRank(f) ==
    LET isEntry(e) == e.by = f.by /\ Str(e.key) = f.key /\ e.reason = f.reason /\ e.risk = f.risk
        flat == IF Tool \in DOMAIN riskPatterns THEN riskPatterns[Tool].risks ELSE <<>>
        sub == IF Tool \in DOMAIN riskPatterns
               THEN SubcommandRisks(riskPatterns[Tool], Args) ELSE <<>>
    IN IF f.reason = PipeReason THEN 201
       ELSE IF f.reason = PruneAllReason THEN 202
       ELSE IF \E i \in 1..Len(flat) : isEntry(flat[i])
       THEN CHOOSE i \in 1..Len(flat) : isEntry(flat[i])
       ELSE IF \E i \in 1..Len(sub) : isEntry(sub[i])
       THEN 100 + (CHOOSE i \in 1..Len(sub) : isEntry(sub[i]))
       ELSE 0

\* C16: the findings of a result are ordered by source: flat catalog entries
\* in declaration order, then the subcommand's entries in declaration order,
\* then the heuristic findings; so an `rm` command with the token -rf has the
\* -rf finding first, whatever precedes the token.
C16_FindingsOrderedBySource ==
    Analyzed /\ result.tool # "" =>
        /\ \A p \in 1..Len(result.risks) : SourceRank(result.risks[p]) > 0
        /\ \A p, q \in 1..Len(result.risks) :
              p < q => SourceRank(result.risks[p]) < SourceRank(result.risks[q])
        /\ (Tool = "rm" /\ ArrIncludes(Args, <<"-", "r", "f">>)) =>
              /\ result.risks[1].by = "flag"
              /\ result.risks[1].key = "-rf"

\* C16 witness: `rm` with -r or -f typed before -rf, and -rf reported first
\* of several findings.
C16_Witness ==
    /\ Analyzed
    /\ Tool = "rm"
    /\ Len(Args) >= 2
    /\ Args[1] \in {<<"-", "r">>, <<"-", "f">>}
    /\ ArrIncludes(Args, <<"-", "r", "f">>)
    /\ Len(result.risks) >= 2
    /\ result.risks[1].key = "-rf"

\* The command with its tokens joined by single spaces: it splits to the
\* same (tool, args).
Normalized(cs) == Join(TokenRuns(cs), <<" ">>)

\* C17: a command and the same tokens spaced otherwise get the same
\* riskLevel, findings and directed suggestion.  (Stated as the claim has it;
\* the code violates it.)
C17_SameTokensSameAnalysis ==
    Analyzed =>
        LET other == analyzeCommand(Normalized(command)) IN
        /\ parseCommand(Normalized(command)) = parseCommand(command)
        /\ result.riskLevel = other.riskLevel
        /\ result.risks = other.risks
        /\ result.directedSuggestion = other.directedSuggestion

\* C18: a pipe-to-shell finding is reported only for a curl or wget command
\* that pipes into the word sh or bash.  (Stated as the claim has it; the
\* code violates it.)
C18_PipeFindingOnlyForShell ==
    Analyzed =>
        \A i \in 1..Len(result.risks) :
            result.risks[i].reason = PipeReason =>
                /\ Tool \in {"curl", "wget"}
                /\ PipesIntoShell(command)

BuiltInPropertyNames ==
    {"constructor", "toString", "valueOf", "hasOwnProperty", "__proto__"}

\* C19: a tool token that is the name of a built-in object property is an
\* unknown tool: analyzeRisks returns found = false and the explanation is
\* the generic string.  (Stated as the claim has it; the code violates it.)
C19_BuiltInNamesAreUnknownTools ==
    Analyzed /\ Tool \in BuiltInPropertyNames =>
        /\ riskAnalysis.found = FALSE
        /\ riskAnalysis.risks = <<>>
        /\ result.explanation =
              StringV("Executes: " \o Tool \o " " \o Str(Join(Args, <<" ">>)))

\* The single tokens of the vocabulary, and the analysis of the command with
\* one of them appended after a space.
AppendTokens ==
    {c \in Families[family] : c # <<>> /\ \A k \in 1..Len(c) : ~IsSpace(c[k])}
Extended(t) == analyzeCommand(command \o <<" ">> \o t)

\* C20 as claimed: every finding of a command is a finding of the command
\* with one more token, and the riskLevel is not lower.  (The code violates
\* the first part.)
C20_AppendingKeepsFindings ==
    Analyzed =>
        \A t \in AppendTokens :
            /\ \A i \in 1..Len(result.risks) :
                  \E j \in 1..Len(Extended(t).risks) :
                      Extended(t).risks[j] = result.risks[i]
            /\ SeverityRank[Extended(t).riskLevel] >= SeverityRank[result.riskLevel]

\* g is f, or f is the pipe-to-shell finding labelled `| bash` and g the same
\* finding labelled `| sh`.
SameUpToPipeLabel(f, g) ==
    \/ g = f
    \/ /\ f.reason = PipeReason
       /\ f.key = "| bash"
       /\ g = [f EXCEPT !.key = "| sh"]

\* C20 as amended: every finding of a command is a finding of the command
\* with one more token, except that the pipe-to-shell finding may change its
\* pattern from `| bash` to `| sh`; and the riskLevel is not lower.
C20_AppendingKeepsFindingsUpToPipeLabel ==
    Analyzed =>
        \A t \in AppendTokens :
            /\ \A i \in 1..Len(result.risks) :
                  \E j \in 1..Len(Extended(t).risks) :
                      SameUpToPipeLabel(result.risks[i], Extended(t).risks[j])
            /\ SeverityRank[Extended(t).riskLevel] >= SeverityRank[result.riskLevel]

\* C20 witness: a command with findings to which a token adds another.
C20_Witness ==
    /\ Analyzed
    /\ result.risks # <<>>
    /\ \E t \in AppendTokens :
          /\ Len(Extended(t).risks) > Len(result.risks)
          /\ \A i \in 1..Len(result.risks) :
                \E j \in 1..Len(Extended(t).risks) :
                    Extended(t).risks[j] = result.risks[i]


(***************************************************************************)
(* Claims about the command line program (specification CliSpec).          *)
(***************************************************************************)

Spawned == child # "none"

\* C13: the original command is handed to a subprocess only after the
\* analysis was displayed and the confirmation prompt resolved to proceed;
\* with --simulate neither the prompt nor the subprocess is ever started, and
\* when the prompt resolves to cancel the subprocess is never started.
C13_ExecutionOnlyAfterConfirmation ==
    /\ Spawned => /\ displayed
                  /\ prompted
                  /\ promise = "true"
                  /\ ~simulate
                  /\ pc = "analyzed"
                  /\ result.command = Str(command)
    /\ simulate => ~prompted /\ ~Spawned
    /\ promise = "false" => ~Spawned
    /\ prompted => displayed

\* A confirmed run whose subprocess has run to its close.
C13_Witness ==
    /\ child = "closed"
    /\ promise = "true"
    /\ displayed
    /\ line.got

\* The answers that are y or yes in some letter case.
YesAnswers ==
    {<<a>> : a \in {"y", "Y"}}
        \cup {<<a, b, c>> : a \in {"y", "Y"}, b \in {"e", "E"}, c \in {"s", "S"}}

\* C14: promptConfirm resolves to proceed exactly when the one line read is
\* y or yes in any letter case, and to cancel for any other line or when the
\* input ends without a line, whatever the order in which the line handler's
\* rl.close() and the close handler's resolve(false) run.
C14_AnswerDecidesOutcome ==
    promise # "pending" =>
        (promise = "true" <=> (line.got /\ line.text \in YesAnswers))

\* C15: the process ends with exit code 1 when no command is supplied, and
\* with exit code 0 after a simulated, cancelled or completed run, whatever
\* exit code the executed subprocess reported.
C15_ExitCodes ==
    cpc = "exited" =>
        /\ IsBlank(command) => exitCode = 1
        /\ (displayed /\ simulate) => exitCode = 0
        /\ promise = "false" => exitCode = 0
        /\ child = "closed" => exitCode = 0 /\ childCode \in ChildExitCodes

\* A confirmed execution whose subprocess failed, and cmdguard exited with 0.
C15_Witness ==
    /\ cpc = "exited"
    /\ child = "closed"
    /\ childCode = 127
    /\ exitCode = 0

=============================================================================
